---- MODULE Spec2Model ----
(***************************************************************************)
(* Model of batch_ocr_pipeline.py: split a PDF into page chunks, classify  *)
(* each chunk as text or scanned, extract text directly from the text      *)
(* chunks, send the scanned chunks through the remote batch OCR service    *)
(* (upload, manifest, job, poll, download) and merge all text into one     *)
(* output file.                                                            *)
(*                                                                         *)
(* Text is a sequence of one-character strings.  The remote service, the   *)
(* PDF library and the document are the environment: their answers are     *)
(* drawn from small sets.                                                  *)
(***************************************************************************)
EXTENDS Integers, Sequences, FiniteSets, TLC

VARIABLES
    pc,             \* position of main(): the statement about to run
    call,           \* the function under execution and its arguments
    ret,            \* the value a directly called function returned
    doc,            \* content of each chunk file, as the PDF library reads it
    chunk_files,    \* main: chunk_files (paths; path n is chunk_<n>.pdf)
    idx,            \* index of the running for-loop of main (0-based)
    text_pages,     \* main: text_pages
    scanned_pages,  \* main: scanned_pages
    merged_text,    \* main: merged_text
    scanned_ids,    \* main: scanned_ids
    manifest,       \* the file ocr_batch.ndjson
    batch_file_id,  \* main: batch_file_id
    job_id,         \* main: job_id
    job_info,       \* main: job_info (wait_for_job: data)
    polls,          \* number of status fetches made by wait_for_job
    calls,          \* HTTP requests sent so far, with the response's success
    results_file,   \* the file ocr_results.ndjson
    out_file,       \* the file final_smart_ocr_output.txt
    raised          \* the exception that ended the run, if any

vars == <<pc, call, ret, doc, chunk_files, idx, text_pages, scanned_pages,
          merged_text, scanned_ids, manifest, batch_file_id, job_id, job_info,
          polls, calls, results_file, out_file, raised>>

\* ---------------------------------------------------------------- bounds
MaxPages == 11
MaxChunkSize == 6
MaxLines == 3
MaxPolls == 2

\* ------------------------------------------------------------- constants
ChunkSize == 5

\* ------------------------------------------------------------------ text
Whitespace == {" ", "\n"}

RECURSIVE LStrip(_)
LStrip(s) ==
    IF s = <<>> THEN <<>>
    ELSE IF Head(s) \in Whitespace THEN LStrip(Tail(s)) ELSE s

RECURSIVE RStrip(_)
RStrip(s) ==
    IF s = <<>> THEN <<>>
    ELSE IF s[Len(s)] \in Whitespace THEN RStrip(SubSeq(s, 1, Len(s) - 1))
    ELSE s

\* str.strip(): leading and trailing whitespace removed
Strip(s) == RStrip(LStrip(s))

Sep == <<"\n", "\n">>

RECURSIVE Join_nosep(_)
Join_nosep(list) ==
    IF list = <<>> THEN <<>>
    ELSE Head(list) \o Join_nosep(Tail(list))

\* "\n\n".join(list)
RECURSIVE Join(_)
Join(list) ==
    IF list = <<>> THEN <<>>
    ELSE IF Len(list) = 1 THEN list[1]
    ELSE Head(list) \o Sep \o Join(Tail(list))

\* ------------------------------------------------------------- split_pdf
FloorDiv(a, b) == a \div b

\* math.ceil(total_pages / chunk_size)
CeilDiv(a, b) == IF a % b = 0 THEN a \div b ELSE (a \div b) + 1

Min(a, b) == IF a < b THEN a ELSE b

\* the pages (0-based indices into reader.pages) written to chunk i (0-based)
ChunkPages(i, total_pages, chunk_size) ==
    LET start == i * chunk_size
        end   == Min(start + chunk_size, total_pages)
    IN  [j \in 1..(end - start) |-> start + j - 1]

\* split_pdf: one file per chunk, path chunk_<i+1>.pdf
split_pdf(total_pages, chunk_size) ==
    LET chunks == CeilDiv(total_pages, chunk_size)
    IN  [n \in 1..chunks |->
            [path |-> n, pages |-> ChunkPages(n - 1, total_pages, chunk_size)]]

\* ------------------------------------------------------ download_results
Absent == [set |-> FALSE, s |-> <<>>]
Str(s) == [set |-> TRUE, s |-> s]

\* Python truthiness of result.get(...).get(key): None and "" are falsy
Truthy(f) == f.set /\ f.s # <<>>

\* response.output_text or response.text or ""
OutputText(line) ==
    IF Truthy(line.output_text) THEN line.output_text.s
    ELSE IF Truthy(line.text) THEN line.text.s
    ELSE <<>>

ParseRaises_keyerror(file) ==
    \E i \in 1..Len(file) :
        ~file[i].json \/ (~file[i].output_text.set /\ ~file[i].text.set)

\* json.loads(line) raises on a line that is not JSON
ParseRaises(file) == \E i \in 1..Len(file) : ~file[i].json

\* the texts list built by the loop over the lines of the saved file
ParseResults(file) == [i \in 1..Len(file) |-> Strip(OutputText(file[i]))]

\* ------------------------------------------------------------ environment
Digit(p) == <<"1", "2", "3", "4", "5", "6", "7", "8", "9">>[p]

Raises == [ok |-> FALSE, text |-> <<>>]
Text(s) == [ok |-> TRUE, text |-> s]

ChunkKinds == {"digital", "blank_scan", "unreadable", "probe_only"}

\* what extract_text yields on chunk p: probe is extract_text(path,
\* maxpages=1), full is extract_text(path); chunk p's text carries digit p
Content(p, kind) ==
    CASE kind = "digital"    -> [probe |-> Text(<<Digit(p), " ">>),
                                 full  |-> Text(<<" ", Digit(p), "\n">>)]
      [] kind = "blank_scan" -> [probe |-> Text(<<" ">>),
                                 full  |-> Text(<<" ">>)]
      [] kind = "unreadable" -> [probe |-> Raises, full |-> Raises]
      [] kind = "probe_only" -> [probe |-> Text(<<Digit(p)>>),
                                 full  |-> Raises]

LineKinds == {"ot", "tx", "none", "empty_ot", "ws_ot", "both", "bad"}
MainLineKinds == {"ot", "tx", "none", "bad"}

\* one line of the result file for task chunk_<k>, the OCR of chunk p
Line(k, p, kind) ==
    CASE kind = "ot"       -> [custom_id |-> k, json |-> TRUE,
                               output_text |-> Str(<<" ", Digit(p)>>),
                               text |-> Absent]
      [] kind = "tx"       -> [custom_id |-> k, json |-> TRUE,
                               output_text |-> Absent,
                               text |-> Str(<<Digit(p), "\n">>)]
      [] kind = "none"     -> [custom_id |-> k, json |-> TRUE,
                               output_text |-> Absent, text |-> Absent]
      [] kind = "empty_ot" -> [custom_id |-> k, json |-> TRUE,
                               output_text |-> Str(<<>>),
                               text |-> Str(<<Digit(p)>>)]
      [] kind = "ws_ot"    -> [custom_id |-> k, json |-> TRUE,
                               output_text |-> Str(<<" ">>),
                               text |-> Str(<<Digit(p)>>)]
      [] kind = "both"     -> [custom_id |-> k, json |-> TRUE,
                               output_text |-> Str(<<Digit(p)>>),
                               text |-> Str(<<"x">>)]
      [] kind = "bad"      -> [custom_id |-> k, json |-> FALSE,
                               output_text |-> Absent, text |-> Absent]

\* sequences over S without repetition: the remote service answers each
\* task at most once, in an order of its own
InjSeqs(S) ==
    UNION {{f \in [1..n -> S] : \A i, j \in 1..n : f[i] = f[j] => i = j}
           : n \in 0..Cardinality(S)}

NoBody == [json |-> FALSE, has_status |-> FALSE, status |-> "",
           output_files |-> <<>>]
NoStatus == [json |-> TRUE, has_status |-> FALSE, status |-> "",
             output_files |-> <<>>]
Job(status, output_files) ==
    [json |-> TRUE, has_status |-> TRUE, status |-> status,
     output_files |-> output_files]

Bodies ==
    {NoBody, NoStatus, Job("running", <<>>)}
    \cup {Job("completed", o) : o \in {<<>>, <<7>>, <<8, 7>>}}
    \cup {Job(s, o) : s \in {"failed", "cancelled"}, o \in {<<>>, <<7>>}}

\* a response to GET /batch/jobs/{id}: HTTP success flag and body
Responses == [ok : BOOLEAN, body : Bodies]

\* ------------------------------------------------------------------ state
NoFile == [written |-> FALSE, content |-> <<>>]
File(content) == [written |-> TRUE, content |-> content]
NoRet == [done |-> FALSE, val |-> <<>>]
NoError == [exc |-> "", at |-> ""]
Error(exc, at) == [exc |-> exc, at |-> at]
NoJob == Job("", <<>>)

Request(op, arg, ok) == [op |-> op, arg |-> arg, ok |-> ok]

Blank ==
    /\ ret = NoRet
    /\ doc = <<>>
    /\ chunk_files = <<>>
    /\ idx = 0
    /\ text_pages = <<>>
    /\ scanned_pages = <<>>
    /\ merged_text = <<>>
    /\ scanned_ids = <<>>
    /\ manifest = NoFile
    /\ batch_file_id = 0
    /\ job_id = 0
    /\ job_info = NoJob
    /\ polls = 0
    /\ calls = <<>>
    /\ results_file = NoFile
    /\ out_file = NoFile
    /\ raised = NoError

Init ==
    /\ pc = "split"
    /\ call = [fn |-> "main"]
    /\ Blank

\* an exception propagates to the top level and ends the run
Abort(exc, at) ==
    /\ pc' = "aborted"
    /\ raised' = Error(exc, at)

\* ------------------------------------------------------------------- main
is_text_page(c) ==
    IF ~c.probe.ok THEN FALSE ELSE Strip(c.probe.text) # <<>>

\* chunk_files = split_pdf(input_pdf, chunk_size=5)
Split ==
    /\ pc = "split"
    /\ \E total_pages \in 0..MaxPages :
         LET files == split_pdf(total_pages, ChunkSize) IN
         \E kinds \in [1..Len(files) -> ChunkKinds] :
            /\ chunk_files' = [n \in 1..Len(files) |-> files[n].path]
            /\ doc' = [n \in 1..Len(files) |-> Content(n, kinds[n])]
    /\ pc' = "classify"
    /\ idx' = 0
    /\ UNCHANGED <<call, ret, text_pages, scanned_pages, merged_text,
                   scanned_ids, manifest, batch_file_id, job_id, job_info,
                   polls, calls, results_file, out_file, raised>>

\* for path in chunk_files: text_pages or scanned_pages gets path
Classify ==
    /\ pc = "classify"
    /\ IF idx < Len(chunk_files)
       THEN LET path == chunk_files[idx + 1] IN
            /\ IF is_text_page(doc[path])
               THEN /\ text_pages' = Append(text_pages, path)
                    /\ UNCHANGED scanned_pages
               ELSE /\ scanned_pages' = Append(scanned_pages, path)
                    /\ UNCHANGED text_pages
            /\ idx' = idx + 1
            /\ UNCHANGED pc
       ELSE /\ pc' = "extract"
            /\ idx' = 0
            /\ UNCHANGED <<text_pages, scanned_pages>>
    /\ UNCHANGED <<call, ret, doc, chunk_files, merged_text, scanned_ids,
                   manifest, batch_file_id, job_id, job_info, polls, calls,
                   results_file, out_file, raised>>

\* for path in text_pages: merged_text.append(extract_text(path).strip());
\* then the test "if scanned_pages"
Extract ==
    /\ pc = "extract"
    /\ IF idx < Len(text_pages)
       THEN LET c == doc[text_pages[idx + 1]] IN
            IF c.full.ok
            THEN /\ merged_text' = Append(merged_text, Strip(c.full.text))
                 /\ idx' = idx + 1
                 /\ UNCHANGED <<pc, raised>>
            ELSE /\ Abort("ExtractionError", "extract_text")
                 /\ UNCHANGED <<merged_text, idx>>
       ELSE /\ pc' = IF scanned_pages # <<>> THEN "upload" ELSE "merge"
            /\ idx' = 0
            /\ UNCHANGED <<merged_text, raised>>
    /\ UNCHANGED <<call, ret, doc, chunk_files, text_pages, scanned_pages,
                   scanned_ids, manifest, batch_file_id, job_id, job_info,
                   polls, calls, results_file, out_file>>

\* --------------------------------------------------------- OCR batch client
\* the remote service numbers the files it receives
NewFileId == Len(scanned_ids) + 1

UploadFile_retry ==
    /\ pc = "upload"
    /\ IF idx < Len(scanned_pages)
       THEN \E ok \in BOOLEAN :
            /\ calls' = Append(calls,
                               Request("upload", scanned_pages[idx + 1], ok))
            /\ IF ok
               THEN /\ scanned_ids' = Append(scanned_ids, NewFileId)
                    /\ idx' = idx + 1
               ELSE UNCHANGED <<scanned_ids, idx>>
            /\ UNCHANGED <<pc, raised>>
       ELSE /\ pc' = "create_ndjson"
            /\ idx' = 0
            /\ UNCHANGED <<calls, scanned_ids, raised>>
    /\ UNCHANGED <<call, ret, doc, chunk_files, text_pages, scanned_pages,
                   merged_text, manifest, batch_file_id, job_id, job_info,
                   polls, results_file, out_file>>

UploadFile_noraise ==
    /\ pc = "upload"
    /\ IF idx < Len(scanned_pages)
       THEN \E ok \in BOOLEAN :
            /\ calls' = Append(calls,
                               Request("upload", scanned_pages[idx + 1], ok))
            /\ scanned_ids' = Append(scanned_ids, NewFileId)
            /\ idx' = idx + 1
            /\ UNCHANGED <<pc, raised>>
       ELSE /\ pc' = "create_ndjson"
            /\ idx' = 0
            /\ UNCHANGED <<calls, scanned_ids, raised>>
    /\ UNCHANGED <<call, ret, doc, chunk_files, text_pages, scanned_pages,
                   merged_text, manifest, batch_file_id, job_id, job_info,
                   polls, results_file, out_file>>

\* scanned_ids = [upload_file(p) for p in scanned_pages]: POST /files,
\* raise_for_status, the id of the response
UploadFile ==
    /\ pc = "upload"
    /\ IF idx < Len(scanned_pages)
       THEN \E ok \in BOOLEAN :
            /\ calls' = Append(calls,
                               Request("upload", scanned_pages[idx + 1], ok))
            /\ IF ok
               THEN /\ scanned_ids' = Append(scanned_ids, NewFileId)
                    /\ idx' = idx + 1
                    /\ UNCHANGED <<pc, raised>>
               ELSE /\ Abort("HTTPError", "upload_file")
                    /\ UNCHANGED <<scanned_ids, idx>>
       ELSE /\ pc' = "create_ndjson"
            /\ idx' = 0
            /\ UNCHANGED <<calls, scanned_ids, raised>>
    /\ UNCHANGED <<call, ret, doc, chunk_files, text_pages, scanned_pages,
                   merged_text, manifest, batch_file_id, job_id, job_info,
                   polls, results_file, out_file>>

\* the records create_ndjson writes: custom_id chunk_<i+1>, input the file id
create_ndjson(ids) ==
    [i \in 1..Len(ids) |-> [custom_id |-> i, input |-> ids[i]]]

CreateNdjson ==
    /\ pc = "create_ndjson"
    /\ manifest' = File(create_ndjson(scanned_ids))
    /\ pc' = "upload_batch_file"
    /\ UNCHANGED <<call, ret, doc, chunk_files, idx, text_pages,
                   scanned_pages, merged_text, scanned_ids, batch_file_id,
                   job_id, job_info, polls, calls, results_file, out_file,
                   raised>>

\* upload_batch_file: POST /files with the manifest, raise_for_status
UploadBatchFile ==
    /\ pc = "upload_batch_file"
    /\ \E ok \in BOOLEAN :
         /\ calls' = Append(calls, Request("upload_manifest", 0, ok))
         /\ IF ok
            THEN /\ batch_file_id' = NewFileId
                 /\ pc' = "create_batch_job"
                 /\ UNCHANGED raised
            ELSE /\ Abort("HTTPError", "upload_batch_file")
                 /\ UNCHANGED batch_file_id
    /\ UNCHANGED <<call, ret, doc, chunk_files, idx, text_pages,
                   scanned_pages, merged_text, scanned_ids, manifest, job_id,
                   job_info, polls, results_file, out_file>>

\* create_batch_job: POST /batch/jobs, raise_for_status, the job's id
CreateBatchJob ==
    /\ pc = "create_batch_job"
    /\ \E ok \in BOOLEAN :
         /\ calls' = Append(calls, Request("create_job", batch_file_id, ok))
         /\ IF ok
            THEN /\ job_id' = 1
                 /\ pc' = "wait_for_job"
                 /\ UNCHANGED raised
            ELSE /\ Abort("HTTPError", "create_batch_job")
                 /\ UNCHANGED job_id
    /\ UNCHANGED <<call, ret, doc, chunk_files, idx, text_pages,
                   scanned_pages, merged_text, scanned_ids, manifest,
                   batch_file_id, job_info, polls, results_file, out_file>>

TerminalStatuses_nocancel == {"completed", "failed"}

TerminalStatuses == {"completed", "failed", "cancelled"}

\* one turn of the loop of wait_for_job: GET the job, resp.json(),
\* data["status"], leave the loop on a terminal status.  The response's
\* HTTP status is not looked at.
FetchStatus ==
    /\ pc = "wait_for_job"
    /\ polls < MaxPolls
    /\ \E r \in Responses :
         /\ calls' = Append(calls, Request("poll", job_id, r.ok))
         /\ polls' = polls + 1
         /\ IF ~r.body.json
            THEN /\ Abort("JSONDecodeError", "wait_for_job")
                 /\ UNCHANGED job_info
            ELSE IF ~r.body.has_status
            THEN /\ Abort("KeyError", "wait_for_job")
                 /\ UNCHANGED job_info
            ELSE /\ job_info' = r.body
                 /\ pc' = IF r.body.status \in TerminalStatuses
                          THEN "check_output" ELSE "sleep"
                 /\ UNCHANGED raised
    /\ UNCHANGED <<call, ret, doc, chunk_files, idx, text_pages,
                   scanned_pages, merged_text, scanned_ids, manifest,
                   batch_file_id, job_id, results_file, out_file>>

\* time.sleep(interval), then the next turn of the loop
Sleep ==
    /\ pc = "sleep"
    /\ pc' = "wait_for_job"
    /\ UNCHANGED <<call, ret, doc, chunk_files, idx, text_pages,
                   scanned_pages, merged_text, scanned_ids, manifest,
                   batch_file_id, job_id, job_info, polls, calls,
                   results_file, out_file, raised>>

CheckOutput_raise ==
    /\ pc = "check_output"
    /\ pc' = IF job_info.output_files # <<>> THEN "download" ELSE "aborted"
    /\ raised' = IF job_info.output_files # <<>> THEN raised
                 ELSE Error("OutputMissingError", "main")
    /\ UNCHANGED <<call, ret, doc, chunk_files, idx, text_pages,
                   scanned_pages, merged_text, scanned_ids, manifest,
                   batch_file_id, job_id, job_info, polls, calls,
                   results_file, out_file>>

\* if job_info.get("output_files"): download, else only a message
CheckOutput ==
    /\ pc = "check_output"
    /\ pc' = IF job_info.output_files # <<>> THEN "download" ELSE "merge"
    /\ UNCHANGED <<call, ret, doc, chunk_files, idx, text_pages,
                   scanned_pages, merged_text, scanned_ids, manifest,
                   batch_file_id, job_id, job_info, polls, calls,
                   results_file, out_file, raised>>

\* the result files the service may hold for the tasks of the manifest
ResultFiles(kinds) ==
    UNION {{[i \in 1..Len(order) |->
                Line(order[i], scanned_pages[order[i]], ks[i])]
            : ks \in [1..Len(order) -> kinds]}
           : order \in InjSeqs(1..Len(scanned_pages))}

\* download_results(file_id): GET the content, raise_for_status, save it,
\* parse every line
download_results(file_id, file, next) ==
    \E ok \in BOOLEAN :
      /\ calls' = Append(calls, Request("download", file_id, ok))
      /\ IF ~ok
         THEN /\ Abort("HTTPError", "download_results")
              /\ UNCHANGED <<results_file, ret>>
         ELSE /\ results_file' = File(file)
              /\ IF ParseRaises(file)
                 THEN /\ Abort("JSONDecodeError", "download_results")
                      /\ UNCHANGED ret
                 ELSE /\ ret' = [done |-> TRUE, val |-> ParseResults(file)]
                      /\ pc' = next
                      /\ UNCHANGED raised

\* output_file_id = job_info["output_files"][0]; merged_text.extend(...)
Download ==
    /\ pc = "download"
    /\ \E file \in ResultFiles(MainLineKinds) :
         /\ download_results(job_info.output_files[1], file, "merge")
         /\ merged_text' = IF pc' = "aborted" THEN merged_text
                           ELSE merged_text \o ret'.val
    /\ UNCHANGED <<call, doc, chunk_files, idx, text_pages, scanned_pages,
                   scanned_ids, manifest, batch_file_id, job_id, job_info,
                   polls, out_file>>

\* final_output = "\n\n".join(merged_text), written to the output file
Merge ==
    /\ pc = "merge"
    /\ out_file' = File(Join(merged_text))
    /\ pc' = "done"
    /\ UNCHANGED <<call, ret, doc, chunk_files, idx, text_pages,
                   scanned_pages, merged_text, scanned_ids, manifest,
                   batch_file_id, job_id, job_info, polls, calls,
                   results_file, raised>>

Next ==
    \/ Split
    \/ Classify
    \/ Extract
    \/ UploadFile
    \/ CreateNdjson
    \/ UploadBatchFile
    \/ CreateBatchJob
    \/ FetchStatus
    \/ Sleep
    \/ CheckOutput
    \/ Download
    \/ Merge

\* a run of main()
Spec == Init /\ [][Next]_vars

\* ------------------------------------------------ split_pdf on its own
InitSplit ==
    /\ pc = "split_pdf"
    /\ call \in [fn : {"split_pdf"}, total_pages : 0..MaxPages,
                 chunk_size : 1..MaxChunkSize]
    /\ Blank

CallSplitPdf ==
    /\ pc = "split_pdf"
    /\ ret' = [done |-> TRUE,
               val |-> split_pdf(call.total_pages, call.chunk_size)]
    /\ pc' = "returned"
    /\ UNCHANGED <<call, doc, chunk_files, idx, text_pages, scanned_pages,
                   merged_text, scanned_ids, manifest, batch_file_id, job_id,
                   job_info, polls, calls, results_file, out_file, raised>>

NextSplit == CallSplitPdf

SplitSpec == InitSplit /\ [][NextSplit]_vars

\* ------------------------------------------- download_results on its own
\* result files of up to MaxLines lines, line i answering task chunk_<i>
ParseFiles ==
    UNION {[1..n -> LineKinds] : n \in 0..MaxLines}

InitParse ==
    /\ pc = "download_results"
    /\ call \in [fn : {"download_results"}, file_id : {7}, kinds : ParseFiles]
    /\ Blank

CallDownloadResults ==
    /\ pc = "download_results"
    /\ download_results(call.file_id,
                        [i \in 1..Len(call.kinds) |->
                            Line(i, i, call.kinds[i])],
                        "returned")
    /\ UNCHANGED <<call, doc, chunk_files, idx, text_pages, scanned_pages,
                   merged_text, scanned_ids, manifest, batch_file_id, job_id,
                   job_info, polls, out_file>>

NextParse == CallDownloadResults

ParseSpec == InitParse /\ [][NextParse]_vars

\* =================================================================== claims
\* s with its leading and trailing whitespace removed, stated by what the
\* result is rather than by how it is computed
Trimmed(s) ==
    CHOOSE t \in {SubSeq(s, a + 1, Len(s) - b) :
                    a \in 0..Len(s), b \in 0..Len(s)} :
        \E a, b \in 0..Len(s) :
            /\ a + b <= Len(s)
            /\ t = SubSeq(s, a + 1, Len(s) - b)
            /\ \A k \in 1..a : s[k] \in {" ", "\n"}
            /\ \A k \in (Len(s) - b + 1)..Len(s) : s[k] \in {" ", "\n"}
            /\ t # <<>> => t[1] \notin {" ", "\n"} /\ t[Len(t)] \notin {" ", "\n"}

\* the first n texts of list with a blank line between neighbours
RECURSIVE BlankLineJoined(_, _)
BlankLineJoined(list, n) ==
    IF n = 0 THEN <<>>
    ELSE IF n = 1 THEN list[1]
    ELSE BlankLineJoined(list, n - 1) \o <<"\n", "\n">> \o list[n]

\* chunk p has text on its first page
IsTextChunk(p) == doc[p].probe.ok /\ Trimmed(doc[p].probe.text) # <<>>

\* the trimmed direct-extraction texts of the text chunks, in chunk order
DirectTexts ==
    LET text_chunks == SelectSeq(chunk_files, IsTextChunk)
    IN  [i \in 1..Len(text_chunks) |-> Trimmed(doc[text_chunks[i]].full.text)]

Requests(op) == {i \in 1..Len(calls) : calls[i].op = op}

Classified == pc \notin {"split", "classify", "split_pdf", "download_results"}

WaitReturned == job_info.status \in {"completed", "failed", "cancelled"}

\* ------------------------------------------------------------------- C1
RECURSIVE Flatten(_)
Flatten(seqs) ==
    IF seqs = <<>> THEN <<>> ELSE Head(seqs) \o Flatten(Tail(seqs))

\* C1: for P >= 0 pages and chunk size C >= 1, split_pdf returns ceil(P/C)
\* chunks (none when P = 0), chunk i (0-based) holds the pages
\* i*C .. min((i+1)*C, P)-1, every chunk has 1..C pages, and the chunks in
\* order hold every page exactly once in the original order.
C1_SplitPartitions ==
    pc = "returned" /\ call.fn = "split_pdf" =>
        LET P == call.total_pages
            C == call.chunk_size
            out == ret.val
            n == Len(out)
        IN  /\ n * C >= P
            /\ (n > 0 => (n - 1) * C < P)
            /\ (P = 0 => n = 0)
            /\ \A i \in 0..(n - 1) :
                 LET pages == out[i + 1].pages
                     last  == IF (i + 1) * C < P THEN (i + 1) * C - 1
                              ELSE P - 1
                 IN  /\ Len(pages) >= 1
                     /\ Len(pages) <= C
                     /\ Len(pages) = last - i * C + 1
                     /\ \A j \in 1..Len(pages) : pages[j] = i * C + j - 1
            /\ Flatten([k \in 1..n |-> out[k].pages]) = [k \in 1..P |-> k - 1]

C1_Witness ==
    /\ pc = "returned"
    /\ call.fn = "split_pdf"
    /\ call.total_pages % call.chunk_size # 0
    /\ Len(ret.val) >= 3
    /\ Len(ret.val[Len(ret.val)].pages) < call.chunk_size

\* ------------------------------------------------------------------- C2
\* C2: in a run where every chunk is classified as text, no network call is
\* ever made, and the text written to the output file is the trimmed texts
\* of the chunks joined by a blank line in chunk order.
C2_TextOnlyRun ==
    Classified /\ call.fn = "main" /\ scanned_pages = <<>> =>
        /\ calls = <<>>
        /\ ~manifest.written
        /\ ~results_file.written
        /\ out_file.written =>
             out_file.content =
                BlankLineJoined(
                    [i \in 1..Len(chunk_files) |->
                        Trimmed(doc[chunk_files[i]].full.text)],
                    Len(chunk_files))

C2_Witness ==
    /\ pc = "done"
    /\ scanned_pages = <<>>
    /\ Len(chunk_files) >= 2
    /\ out_file.written
    /\ out_file.content = <<"1", "\n", "\n", "2">>

\* ------------------------------------------------------------------- C3
\* C3: a non-success response to the upload of a scanned chunk aborts the
\* run at that upload: it is the last request of the run (no retry, no
\* manifest upload, job, poll or download), the manifest file is never
\* created and the output file is never written.
C3_UploadFailureAborts ==
    \A i \in Requests("upload") :
        ~calls[i].ok =>
            /\ i = Len(calls)
            /\ pc = "aborted"
            /\ ~manifest.written
            /\ ~results_file.written
            /\ ~out_file.written

C3_Witness ==
    /\ pc = "aborted"
    /\ calls # <<>>
    /\ calls[Len(calls)].op = "upload"
    /\ ~calls[Len(calls)].ok
    /\ Len(calls) >= 2
    /\ merged_text # <<>>

\* ------------------------------------------------------------------- C4
C4_Case == job_info.status = "completed" /\ job_info.output_files = <<>>

\* C4: when the polled job is completed but exposes no output file, the run
\* does not abort: no download is attempted, the run goes on to the merge
\* step and ends normally, and the output file holds exactly the
\* direct-extraction texts of the text chunks, joined by a blank line.
C4_CompletedWithoutOutput ==
    C4_Case =>
        /\ pc \in {"check_output", "merge", "done"}
        /\ raised = NoError
        /\ Requests("download") = {}
        /\ ~results_file.written
        /\ pc = "check_output" => ENABLED CheckOutput /\ ~ENABLED Download
        /\ pc = "merge" => ENABLED Merge
        /\ pc = "done" =>
             /\ out_file.written
             /\ out_file.content =
                    BlankLineJoined(DirectTexts, Len(DirectTexts))

C4_Witness ==
    /\ C4_Case
    /\ pc = "done"
    /\ Len(text_pages) >= 2
    /\ scanned_pages # <<>>
    /\ out_file.written

\* ------------------------------------------------------------------- C5
\* C5: any non-success response to a scanned-chunk upload, the manifest
\* upload, the job creation or a status fetch aborts the run at once: it is
\* the last request of the run, nothing follows it and the output file is
\* not written; a failed status fetch is neither read as a job status nor
\* polled again.
C5_AnyHttpErrorAborts ==
    \A i \in 1..Len(calls) :
        /\ calls[i].op \in {"upload", "upload_manifest", "create_job", "poll"}
        /\ ~calls[i].ok
        => /\ i = Len(calls)
           /\ pc = "aborted"
           /\ ~out_file.written

\* ------------------------------------------------------------------- C6
IsDigit(c) == \E p \in 1..9 : Digit(p) = c
ChunkOf(c) == CHOOSE p \in 1..9 : Digit(p) = c

\* C6: the output file lists the chunks' texts in original chunk order,
\* whichever path produced them: the text of chunk i comes before the text
\* of chunk j whenever i < j.
C6_ChunkOrderKept ==
    out_file.written /\ call.fn = "main" =>
        \A i, j \in 1..Len(out_file.content) :
            /\ i < j
            /\ IsDigit(out_file.content[i])
            /\ IsDigit(out_file.content[j])
            => ChunkOf(out_file.content[i]) < ChunkOf(out_file.content[j])

\* ------------------------------------------------------------------- C7
\* the field the claim names for a record: output_text if non-empty, else
\* text if non-empty, else the empty string
FirstNonEmpty(line) ==
    IF line.output_text.set /\ Len(line.output_text.s) > 0
    THEN line.output_text.s
    ELSE IF line.text.set /\ Len(line.text.s) > 0 THEN line.text.s
    ELSE <<>>

C8_LoopStep ==
    /\ pc = "wait_for_job" =>
         \/ /\ pc' = "check_output"
            /\ job_info'.status \in {"completed", "failed", "cancelled"}
         \/ /\ pc' = "sleep"
            /\ job_info'.status \notin {"completed", "failed", "cancelled"}
         \/ /\ pc' = "aborted"
            /\ raised'.at = "wait_for_job"
    /\ pc = "sleep" => pc' = "wait_for_job" /\ polls' = polls

\* C8 as stated: wait_for_job returns only after, and at, the first fetch
\* that reports completed, failed or cancelled, and keeps fetching
\* otherwise; hence a run whose job reported a terminal status reaches the
\* merge step.
C8_TerminalReachesMerge ==
    /\ pc \in {"check_output", "download"} => WaitReturned
    /\ pc = "sleep" => ~WaitReturned
    /\ WaitReturned => pc # "aborted"

\* C8 as amended: wait_for_job returns only after, and at, the first fetch
\* that reports completed, failed or cancelled, and keeps fetching
\* otherwise; a run whose job reported a terminal status reaches the merge
\* step unless the result download raises, which aborts the run.
C8_PollUntilTerminal ==
    /\ [][C8_LoopStep]_vars
    /\ [](pc \in {"check_output", "download"} => WaitReturned)
    /\ [](pc = "sleep" => ~WaitReturned)
    /\ [](WaitReturned =>
            \/ pc \in {"check_output", "download"} /\ ENABLED Next
            \/ pc \in {"merge", "done"}
            \/ pc = "aborted" /\ raised.at = "download_results")

C8_Witness ==
    /\ polls >= 2
    /\ WaitReturned
    /\ pc = "merge"
    /\ results_file.written

\* ------------------------------------------------------------------- C9
\* C9: a download is requested only when the terminal status seen by the
\* poll loop is completed and the job exposes an output file, and it
\* fetches the first one; a failed or cancelled job never triggers a
\* download and adds no OCR text to the output.
C9_DownloadOnCompletionOnly ==
    /\ \A i \in Requests("download") :
         /\ job_info.status = "completed"
         /\ job_info.output_files # <<>>
         /\ calls[i].arg = job_info.output_files[1]
    /\ job_info.status \in {"failed", "cancelled"} =>
         /\ Requests("download") = {}
         /\ out_file.written =>
              out_file.content = BlankLineJoined(DirectTexts, Len(DirectTexts))

\* ------------------------------------------------------------------ C10
Rank(op) ==
    CASE op = "upload" -> 1
      [] op = "upload_manifest" -> 2
      [] op = "create_job" -> 3
      [] op = "poll" -> 4
      [] op = "download" -> 5

OkRequests(op) == {i \in Requests(op) : calls[i].ok}

====
